---- MODULE Spec2Model ----
(***************************************************************************)
(* Model of four programs of the repository.                               *)
(*                                                                         *)
(* behavioral/visitor.py: the node classes, NodeVisitor.visit,             *)
(* NodeVisitor.generic_visit and the Evaluator handlers, executed as the   *)
(* Python interpreter executes them: a call stack of frames, one frame per *)
(* visit call and one per handler call, a pending exception that unwinds   *)
(* the stack, and the event log of one traversal.                          *)
(*                                                                         *)
(* creational/singleton.py: the four singleton classes and the             *)
(* instantiation calls made on them.                                       *)
(*                                                                         *)
(* behavioral/state.py: the class-swapping Connection and the state-object *)
(* Connection, called side by side.                                        *)
(*                                                                         *)
(* behavioral/observer.py: the classical Newspaper with its subscribers.   *)
(***************************************************************************)
EXTENDS Integers, Sequences, FiniteSets, TLC

(***************************************************************************)
(* Bounds of the model.                                                    *)
(***************************************************************************)
\* Number nodes of the value trees hold 0..MaxVal.
MaxVal == 2
\* Generated shape trees hold at most MaxOps binary operators.
MaxOps == 2
\* Root visit calls made on one visitor instance under SpecRepeat.
MaxRuns == 3

(***************************************************************************)
(* Python numbers.  A number is its type and its value as a fraction n/d   *)
(* in lowest terms with d > 0; an int has d = 1.  IEEE rounding is not     *)
(* modelled: a float stands for the real number it approximates.           *)
(***************************************************************************)
Abs(i) == IF i < 0 THEN -i ELSE i

RECURSIVE GCD(_, _)
GCD(a, b) == IF b = 0 THEN a ELSE GCD(b, a % b)

Norm(t, n, d) ==
    LET g == GCD(Abs(n), Abs(d))
        s == IF d < 0 THEN -1 ELSE 1
    IN  [t |-> t, n |-> (s * n) \div g, d |-> (s * d) \div g]

PyInt(i) == [t |-> "int", n |-> i, d |-> 1]

\* float(x) of an int x
float(x) == [t |-> "float", n |-> x, d |-> 1]

\* type of the result of a binary arithmetic operator (int op int is int)
Coerce(a, b) == IF a.t = "int" /\ b.t = "int" THEN "int" ELSE "float"

PyAdd(a, b) == Norm(Coerce(a, b), a.n * b.d + b.n * a.d, a.d * b.d)
PySub(a, b) == Norm(Coerce(a, b), a.n * b.d - b.n * a.d, a.d * b.d)
PyMul(a, b) == Norm(Coerce(a, b), a.n * b.n, a.d * b.d)
\* Python 2 '/': floor division on two ints, true division otherwise
PyDiv(a, b) ==
    IF Coerce(a, b) = "int" THEN PyInt(a.n \div b.n)
    ELSE Norm("float", a.n * b.d, a.d * b.n)
PyNeg(a) == [a EXCEPT !.n = -a.n]

(***************************************************************************)
(* Exceptions and outcomes.                                                *)
(***************************************************************************)
NoException == [type |-> "None", msg |-> "", node |-> <<>>]

\* an exception object: its class, its message, and the node whose handler
\* raised it (the innermost frame of its traceback)
Exception(type, msg, node) == [type |-> type, msg |-> msg, node |-> node]

NoResult == [kind |-> "none", val |-> PyInt(0), exc |-> NoException]
Returned(v) == [kind |-> "value", val |-> v, exc |-> NoException]
Raised(e) == [kind |-> "error", val |-> PyInt(0), exc |-> e]

(***************************************************************************)
(* The node classes.                                                       *)
(***************************************************************************)
\* a scalar stored in a field (not a Node)
Scalar(v) == [tag |-> "int", value |-> v]

Number(value) == [tag |-> "Number", value |-> value]
Negate(operand) == [tag |-> "Negate", operand |-> operand]
BinaryOperator(tag, left, right) == [tag |-> tag, left |-> left, right |-> right]
Add(left, right) == BinaryOperator("Add", left, right)
Sub(left, right) == BinaryOperator("Sub", left, right)
Mul(left, right) == BinaryOperator("Mul", left, right)
Div(left, right) == BinaryOperator("Div", left, right)

BinaryTags == {"Add", "Sub", "Mul", "Div"}

\* Representation of 1 + 2 * (3 - 4) / 5
t1 == Sub(Number(3), Number(4))
t2 == Mul(Number(2), t1)
t3 == Div(t2, Number(5))
t4 == Add(Number(1), t3)

(***************************************************************************)
(* Trees handed to visit.                                                  *)
(***************************************************************************)
\* all trees of exactly k binary operators over the given leaves
RECURSIVE TreesOf(_, _)
TreesOf(k, leaves) ==
    IF k = 0 THEN leaves
    ELSE UNION { { BinaryOperator(tag, l, r) :
                     tag \in BinaryTags, l \in TreesOf(i, leaves),
                     r \in TreesOf(k - 1 - i, leaves) } : i \in 0..(k - 1) }

TreesUpTo(k, leaves) == UNION { TreesOf(i, leaves) : i \in 0..k }

ShapeLeaves == {Number(1), Negate(Scalar(1))}
ValueLeaves == { Number(v) : v \in 0..MaxVal } \cup { Negate(Scalar(v)) : v \in 0..MaxVal }

OrderTree == Add(Number(1), Mul(Number(2), Number(3)))
Fixtures ==
    { t4, OrderTree,
      Negate(Number(1)),
      Negate(Add(Number(1), Number(2))),
      Add(Number(1), Negate(Number(1))),
      Add(Negate(Number(1)), Div(Number(1), Number(0))),
      Add(Div(Number(1), Number(0)), Negate(Scalar(1))),
      Sub(Number(2), Div(Number(1), Number(0))),
      Mul(Add(Number(1), Number(2)), Sub(Number(3), Negate(Scalar(1)))),
      Sub(Div(Number(1), Sub(Number(1), Number(1))), Add(Number(1), Number(2))),
      Add(Number(1), Mul(Number(2), Div(Number(3), Sub(Number(1), Number(1))))) }

Trees == TreesUpTo(MaxOps, ShapeLeaves) \cup TreesUpTo(1, ValueLeaves) \cup Fixtures

\* the trees revisited under SpecRepeat
RepeatTrees ==
    { Number(1), Negate(Scalar(1)), Negate(Number(1)), Div(Number(1), Number(0)), t4 }

\* a node is named by the path of fields leading to it from the root
RECURSIVE NodeAt(_, _)
NodeAt(t, p) == IF p = <<>> THEN t ELSE NodeAt(t[Head(p)], Tail(p))

IsPrefix(p, q) == Len(p) <= Len(q) /\ \A m \in 1..Len(p) : p[m] = q[m]

(***************************************************************************)
(* The visitor classes: the visit_<Name> methods each class defines.       *)
(* PartialEvaluator is an Evaluator without visit_Negate.                  *)
(***************************************************************************)
Classes == {"NodeVisitor", "Evaluator", "PartialEvaluator"}

Methods(c) ==
    CASE c = "NodeVisitor" -> {}
      [] c = "Evaluator" ->
            {"visit_Number", "visit_Add", "visit_Sub", "visit_Mul", "visit_Div", "visit_Negate"}
      [] c = "PartialEvaluator" ->
            {"visit_Number", "visit_Add", "visit_Sub", "visit_Mul", "visit_Div"}

VARIABLES
    cls,       \* the class of the visitor instance e
    attrs,     \* the instance dictionary of e (attribute name -> value)
    root,      \* the tree handed to the current (or last) root visit call
    stack,     \* the call stack: frames [fn, node, vals], innermost last
    exc,       \* the exception being propagated, or NoException
    result,    \* what the current root call gave its caller
    events,    \* the log of the current traversal
    outcomes,  \* [tree, out] of every finished root call, in order
    tid,       \* the thread that is running
    parked     \* the contexts of the threads that are not running

\* creational/singleton.py
VARIABLES
    _instance,   \* the _instance attribute of each class that has one
    _instances,  \* SingletonMixin._instances
    heap,        \* the objects created so far; an object is named by its index
    calls        \* [class, obj] of every instantiation call made, in order

singletonVars == <<_instance, _instances, heap, calls>>

\* behavioral/state.py
VARIABLES
    __class__,   \* the class of the class-swapping connection object
    connection,  \* the attributes of the state-object connection object
    trace        \* every call made on the two connections, with its outcomes

connectionVars == <<__class__, connection, trace>>

\* behavioral/observer.py
VARIABLES
    newspaper,   \* the attributes of the Newspaper object
    pending,     \* the subscribers the loop of the notify in progress has yet to reach
    log          \* every call made on the newspaper and every update delivered

observerVars == <<newspaper, pending, log>>

visitorVars == <<cls, attrs, root, stack, exc, result, events, outcomes, tid, parked>>

\* the variables of the programs other than behavioral/visitor.py
elsewhere == <<singletonVars, connectionVars, observerVars>>

\* the variables of the programs other than creational/singleton.py
notSingleton == <<visitorVars, connectionVars, observerVars>>

\* the variables of the programs other than behavioral/state.py
notConnection == <<visitorVars, singletonVars, observerVars>>

\* the variables of the programs other than behavioral/observer.py
notObserver == <<visitorVars, singletonVars, connectionVars>>

vars == <<cls, attrs, root, stack, exc, result, events, outcomes, tid, parked, elsewhere>>

None == 0

\* creational/singleton.py after its class statements have run
SingletonStart ==
    /\ _instance = [c \in {"DBConnectionSingleton", "DBConnectionDecorated", "DBConnectionFancy"} |-> None]
    /\ _instances = <<>>
    /\ heap = <<>>
    /\ calls = <<>>

\* a state object of behavioral/state.py: an instance of class c
StateObject(c) == [class |-> c]

\* behavioral/state.py after the two connections have been created:
\* Connection() of the class-swapping version, and
\* Connection(ConnectionOpened(), ConnectionClosed()) of the state-object one
ConnectionStart ==
    /\ __class__ = "ConnectionClosed"
    /\ connection = [opened_state |-> StateObject("ConnectionOpened"),
                     closed_state |-> StateObject("ConnectionClosed"),
                     state |-> StateObject("ConnectionClosed")]
    /\ trace = <<>>

\* behavioral/observer.py after Newspaper() has been created
NewspaperStart ==
    /\ newspaper = [subscribers |-> {}, data |-> "Bad news everyone!", _unsubscribers |-> {}]
    /\ pending = {}
    /\ log = <<>>

\* the programs other than behavioral/visitor.py have not been run
ElsewhereStart == SingletonStart /\ ConnectionStart /\ NewspaperStart

\* the main thread is the only thread
OneThread == tid = 1 /\ parked = <<>>

Frame(fn, node) == [fn |-> fn, node |-> node, vals |-> <<>>]
Top == stack[Len(stack)]
Pop(s) == SubSeq(s, 1, Len(s) - 1)
Running(fn) == stack # <<>> /\ exc = NoException /\ Top.fn = fn

\* a log entry: what happened, at which node, in which function, and the
\* value handed back or the exception raised (<<v>>), if any
Event(ev, node, by, val) == [ev |-> ev, node |-> node, by |-> by, val |-> val]

\* getattr(self, name, None): the instance dictionary first, then the class
getattr(name) ==
    IF name \in DOMAIN attrs THEN attrs[name]
    ELSE IF name \in Methods(cls) THEN name
    ELSE "None"

(***************************************************************************)
(* Leaving a frame.                                                        *)
(***************************************************************************)
\* 'return v' of the innermost frame: the caller's frame receives v, or the
\* caller of the root call does
Return(v) ==
    LET rest == Pop(stack) IN
    /\ exc' = exc
    /\ IF rest = <<>>
       THEN /\ stack' = <<>>
            /\ result' = Returned(v)
            /\ outcomes' = Append(outcomes, [tree |-> root, out |-> Returned(v)])
       ELSE /\ stack' = [rest EXCEPT ![Len(rest)].vals = Append(@, v)]
            /\ UNCHANGED <<result, outcomes>>

\* the innermost frame is left with exception e: e is pending in the caller's
\* frame, or reaches the caller of the root call
Unwind(e) ==
    LET rest == Pop(stack) IN
    /\ stack' = rest
    /\ IF rest = <<>>
       THEN /\ exc' = NoException
            /\ result' = Raised(e)
            /\ outcomes' = Append(outcomes, [tree |-> root, out |-> Raised(e)])
       ELSE /\ exc' = e
            /\ UNCHANGED <<result, outcomes>>

(***************************************************************************)
(* Actions.                                                                *)
(***************************************************************************)
Init ==
    /\ cls \in Classes
    /\ attrs = <<>>
    /\ root \in Trees
    /\ stack = <<>>
    /\ exc = NoException
    /\ result = NoResult
    /\ events = <<>>
    /\ outcomes = <<>>
    /\ OneThread
    /\ ElsewhereStart

\* e.visit(root) at module level
Call ==
    /\ stack = <<>> /\ result = NoResult /\ events = <<>>
    /\ stack' = <<Frame("visit", <<>>)>>
    /\ events' = <<Event("call", <<>>, "module", <<>>)>>
    /\ UNCHANGED <<elsewhere, tid, parked, cls, attrs, root, exc, result, outcomes>>

\* NodeVisitor.visit: look the handler up and call it, then return what it
\* returned
visit ==
    /\ Running("visit")
    /\ LET node == NodeAt(root, Top.node)
           methname == "visit_" \o node.tag
           found == getattr(methname)
           meth == IF found = "None" THEN "generic_visit" ELSE found
       IN  \/ /\ Top.vals = <<>>
              /\ stack' = Append(stack, Frame(meth, Top.node))
              /\ events' = Append(events, Event("enter", Top.node, meth, <<>>))
              /\ UNCHANGED <<exc, result, outcomes>>
           \/ /\ Top.vals # <<>>
              /\ events' = Append(events, Event("exit", Top.node, "visit", Top.vals))
              /\ Return(Top.vals[1])
    /\ UNCHANGED <<elsewhere, tid, parked, cls, attrs, root>>

\* generic_visit as it would be if it processed the node instead of raising
generic_visit_lenient ==
    /\ Running("generic_visit")
    /\ events' = Append(events, Event("return", Top.node, "generic_visit", <<PyInt(0)>>))
    /\ Return(PyInt(0))
    /\ UNCHANGED <<elsewhere, tid, parked, cls, attrs, root>>

\* NodeVisitor.generic_visit
generic_visit ==
    /\ Running("generic_visit")
    /\ LET node == NodeAt(root, Top.node)
           e == Exception("RuntimeError", "No " \o ("visit_" \o node.tag) \o " method", Top.node)
       IN  /\ events' = Append(events, Event("raise", Top.node, "generic_visit", <<e>>))
           /\ Unwind(e)
    /\ UNCHANGED <<elsewhere, tid, parked, cls, attrs, root>>

\* visit_Number as it would be if the visitor kept a running total in an
\* instance attribute: self.total = self.total + node.value; return it
visit_Number_accumulating ==
    /\ Running("visit_Number")
    /\ LET node == NodeAt(root, Top.node)
           total == (IF "total" \in DOMAIN attrs THEN attrs["total"] ELSE 0) + node.value
       IN  /\ attrs' = ("total" :> total)
           /\ events' = Append(events, Event("return", Top.node, "visit_Number", <<float(total)>>))
           /\ Return(float(total))
    /\ UNCHANGED <<elsewhere, tid, parked, cls, root>>

\* visit_Number as it would be with 'return node.value' (no widening)
visit_Number_unwidened ==
    /\ Running("visit_Number")
    /\ LET node == NodeAt(root, Top.node)
       IN  /\ events' = Append(events, Event("return", Top.node, "visit_Number", <<PyInt(node.value)>>))
           /\ Return(PyInt(node.value))
    /\ UNCHANGED <<elsewhere, tid, parked, cls, attrs, root>>

\* Evaluator.visit_Number
visit_Number ==
    /\ Running("visit_Number")
    /\ LET node == NodeAt(root, Top.node)
       IN  /\ events' = Append(events, Event("return", Top.node, "visit_Number", <<float(node.value)>>))
           /\ Return(float(node.value))
    /\ UNCHANGED <<elsewhere, tid, parked, cls, attrs, root>>

\* 'l op r' as it would be with a guard on the divisor:
\* return l / r if r else 0.0
Apply_guarded(tag, l, r, at) ==
    CASE tag = "Add" -> Returned(PyAdd(l, r))
      [] tag = "Sub" -> Returned(PySub(l, r))
      [] tag = "Mul" -> Returned(PyMul(l, r))
      [] tag = "Div" -> IF r.n = 0 THEN Returned(float(0)) ELSE Returned(PyDiv(l, r))

\* the value or the exception of 'l op r'
Apply(tag, l, r, at) ==
    CASE tag = "Add" -> Returned(PyAdd(l, r))
      [] tag = "Sub" -> Returned(PySub(l, r))
      [] tag = "Mul" -> Returned(PyMul(l, r))
      [] tag = "Div" ->
            IF r.n = 0
            THEN Raised(Exception("ZeroDivisionError",
                                  IF Coerce(l, r) = "int"
                                  THEN "integer division or modulo by zero"
                                  ELSE "float division by zero", at))
            ELSE Returned(PyDiv(l, r))

\* a binary handler as it would be if it visited the right child first:
\* r = self.visit(node.right); return self.visit(node.left) <op> r
BinaryHandler_rightfirst(meth, tag) ==
    /\ Running(meth)
    /\ \/ /\ Len(Top.vals) = 0
          /\ stack' = Append(stack, Frame("visit", Top.node \o <<"right">>))
          /\ events' = Append(events, Event("call", Top.node \o <<"right">>, meth, <<>>))
          /\ UNCHANGED <<exc, result, outcomes>>
       \/ /\ Len(Top.vals) = 1
          /\ stack' = Append(stack, Frame("visit", Top.node \o <<"left">>))
          /\ events' = Append(events, Event("call", Top.node \o <<"left">>, meth, <<>>))
          /\ UNCHANGED <<exc, result, outcomes>>
       \/ /\ Len(Top.vals) = 2
          /\ LET out == Apply(tag, Top.vals[2], Top.vals[1], Top.node)
             IN  IF out.kind = "value"
                 THEN /\ events' = Append(events, Event("return", Top.node, meth, <<out.val>>))
                      /\ Return(out.val)
                 ELSE /\ events' = Append(events, Event("raise", Top.node, meth, <<out.exc>>))
                      /\ Unwind(out.exc)
    /\ UNCHANGED <<elsewhere, tid, parked, cls, attrs, root>>

\* a binary handler as it would be with the left child visited twice:
\* return self.visit(node.left) <op> self.visit(node.left)
BinaryHandler_leftonly(meth, tag) ==
    /\ Running(meth)
    /\ \/ /\ Len(Top.vals) < 2
          /\ stack' = Append(stack, Frame("visit", Top.node \o <<"left">>))
          /\ events' = Append(events, Event("call", Top.node \o <<"left">>, meth, <<>>))
          /\ UNCHANGED <<exc, result, outcomes>>
       \/ /\ Len(Top.vals) = 2
          /\ LET out == Apply(tag, Top.vals[1], Top.vals[2], Top.node)
             IN  IF out.kind = "value"
                 THEN /\ events' = Append(events, Event("return", Top.node, meth, <<out.val>>))
                      /\ Return(out.val)
                 ELSE /\ events' = Append(events, Event("raise", Top.node, meth, <<out.exc>>))
                      /\ Unwind(out.exc)
    /\ UNCHANGED <<elsewhere, tid, parked, cls, attrs, root>>

\* return self.visit(node.left) <op> self.visit(node.right)
BinaryHandler(meth, tag) ==
    /\ Running(meth)
    /\ \/ /\ Len(Top.vals) = 0
          /\ stack' = Append(stack, Frame("visit", Top.node \o <<"left">>))
          /\ events' = Append(events, Event("call", Top.node \o <<"left">>, meth, <<>>))
          /\ UNCHANGED <<exc, result, outcomes>>
       \/ /\ Len(Top.vals) = 1
          /\ stack' = Append(stack, Frame("visit", Top.node \o <<"right">>))
          /\ events' = Append(events, Event("call", Top.node \o <<"right">>, meth, <<>>))
          /\ UNCHANGED <<exc, result, outcomes>>
       \/ /\ Len(Top.vals) = 2
          /\ LET out == Apply(tag, Top.vals[1], Top.vals[2], Top.node)
             IN  IF out.kind = "value"
                 THEN /\ events' = Append(events, Event("return", Top.node, meth, <<out.val>>))
                      /\ Return(out.val)
                 ELSE /\ events' = Append(events, Event("raise", Top.node, meth, <<out.exc>>))
                      /\ Unwind(out.exc)
    /\ UNCHANGED <<elsewhere, tid, parked, cls, attrs, root>>

visit_Add == BinaryHandler("visit_Add", "Add")
visit_Sub == BinaryHandler("visit_Sub", "Sub")
visit_Mul == BinaryHandler("visit_Mul", "Mul")
visit_Div == BinaryHandler("visit_Div", "Div")

\* visit_Negate as it would be if it visited its operand like the binary
\* handlers do: return -self.visit(node.operand)
visit_Negate_recursive ==
    /\ Running("visit_Negate")
    /\ \/ /\ Top.vals = <<>>
          /\ stack' = Append(stack, Frame("visit", Top.node \o <<"operand">>))
          /\ events' = Append(events, Event("call", Top.node \o <<"operand">>, "visit_Negate", <<>>))
          /\ UNCHANGED <<exc, result, outcomes>>
       \/ /\ Top.vals # <<>>
          /\ events' = Append(events, Event("return", Top.node, "visit_Negate", <<PyNeg(Top.vals[1])>>))
          /\ Return(PyNeg(Top.vals[1]))
    /\ UNCHANGED <<elsewhere, tid, parked, cls, attrs, root>>

\* the node at path p of tree t replaced by node n
RECURSIVE SetAt(_, _, _)
SetAt(t, p, n) ==
    IF p = <<>> THEN n ELSE [t EXCEPT ![Head(p)] = SetAt(t[Head(p)], Tail(p), n)]

\* visit_Negate as it would be if it negated the operand in place:
\* node.operand = -node.operand; return node.operand
visit_Negate_inplace ==
    /\ Running("visit_Negate")
    /\ LET node == NodeAt(root, Top.node)
       IN  IF node.operand.tag = "int"
           THEN /\ root' = SetAt(root, Top.node, Negate(Scalar(-node.operand.value)))
                /\ events' = Append(events, Event("return", Top.node, "visit_Negate",
                                                  <<PyInt(-node.operand.value)>>))
                /\ Return(PyInt(-node.operand.value))
           ELSE LET e == Exception("TypeError",
                                   "bad operand type for unary -: '" \o node.operand.tag \o "'",
                                   Top.node)
                IN  /\ root' = root
                    /\ events' = Append(events, Event("raise", Top.node, "visit_Negate", <<e>>))
                    /\ Unwind(e)
    /\ UNCHANGED <<elsewhere, tid, parked, cls, attrs>>

\* Evaluator.visit_Negate: return -node.operand
visit_Negate ==
    /\ Running("visit_Negate")
    /\ LET node == NodeAt(root, Top.node)
       IN  IF node.operand.tag = "int"
           THEN /\ events' = Append(events, Event("return", Top.node, "visit_Negate", <<PyNeg(PyInt(node.operand.value))>>))
                /\ Return(PyNeg(PyInt(node.operand.value)))
           ELSE LET e == Exception("TypeError",
                                   "bad operand type for unary -: '" \o node.operand.tag \o "'",
                                   Top.node)
                IN  /\ events' = Append(events, Event("raise", Top.node, "visit_Negate", <<e>>))
                    /\ Unwind(e)
    /\ UNCHANGED <<elsewhere, tid, parked, cls, attrs, root>>

\* Propagate as it would be if the binary handlers caught the exceptions of
\* their children and went on with 0.0 in place of the child's value
Propagate_caught ==
    /\ stack # <<>> /\ exc # NoException
    /\ IF Top.fn \in {"visit_Add", "visit_Sub", "visit_Mul", "visit_Div"}
       THEN /\ stack' = [stack EXCEPT ![Len(stack)].vals = Append(@, float(0))]
            /\ exc' = NoException
            /\ UNCHANGED <<result, outcomes>>
       ELSE Unwind(exc)
    /\ UNCHANGED <<elsewhere, tid, parked, cls, attrs, root, events>>

\* Propagate as it would be if visit wrapped what its handler raised:
\* except Exception: raise RuntimeError(...)
Propagate_wrapped ==
    /\ stack # <<>> /\ exc # NoException
    /\ IF Top.fn = "visit"
       THEN Unwind(Exception("RuntimeError", "visit failed", Top.node))
       ELSE Unwind(exc)
    /\ UNCHANGED <<elsewhere, tid, parked, cls, attrs, root, events>>

\* an exception pending in a frame: no frame has a try statement, so the
\* frame is left and the exception goes on to its caller
Propagate ==
    /\ stack # <<>> /\ exc # NoException
    /\ Unwind(exc)
    /\ UNCHANGED <<elsewhere, tid, parked, cls, attrs, root, events>>

Step ==
    \/ visit \/ generic_visit \/ visit_Number
    \/ visit_Add \/ visit_Sub \/ visit_Mul \/ visit_Div
    \/ visit_Negate \/ Propagate

Next == Call \/ Step

Spec == Init /\ [][Next]_vars

(***************************************************************************)
(* Repeated root calls on one visitor instance: after a root call has      *)
(* returned or raised, e.visit(t) is called again with any tree.           *)
(***************************************************************************)
InitRepeat ==
    /\ cls \in Classes
    /\ attrs = <<>>
    /\ root \in RepeatTrees
    /\ stack = <<>>
    /\ exc = NoException
    /\ result = NoResult
    /\ events = <<>>
    /\ outcomes = <<>>
    /\ OneThread
    /\ ElsewhereStart

Revisit ==
    /\ stack = <<>> /\ result # NoResult /\ Len(outcomes) < MaxRuns
    /\ \E t \in RepeatTrees :
          /\ root' = t
          /\ stack' = <<Frame("visit", <<>>)>>
          /\ events' = <<Event("call", <<>>, "module", <<>>)>>
          /\ result' = NoResult
    /\ UNCHANGED <<elsewhere, tid, parked, cls, attrs, exc, outcomes>>

NextRepeat == Call \/ Revisit \/ Step

SpecRepeat == InitRepeat /\ [][NextRepeat]_vars

(***************************************************************************)
(* What the claims are stated with: the tree as a mathematical object.     *)
(***************************************************************************)
IsBinary(t) == t.tag \in BinaryTags

\* the paths of all nodes of tree t
RECURSIVE Paths(_)
Paths(t) ==
    IF IsBinary(t)
    THEN {<<>>} \cup { <<"left">> \o p : p \in Paths(t.left) }
                \cup { <<"right">> \o p : p \in Paths(t.right) }
    ELSE IF t.tag = "Negate" /\ t.operand.tag # "int"
    THEN {<<>>} \cup { <<"operand">> \o p : p \in Paths(t.operand) }
    ELSE {<<>>}

\* built only from Number, Add, Sub, Mul and Div
RECURSIVE Plain(_)
Plain(t) ==
    IF IsBinary(t) THEN Plain(t.left) /\ Plain(t.right) ELSE t.tag = "Number"

\* the value a plain tree denotes, as a fraction <<numerator, denominator>>
RECURSIVE Denote(_)
Denote(t) ==
    IF t.tag = "Number" THEN <<t.value, 1>>
    ELSE LET l == Denote(t.left)
             r == Denote(t.right)
         IN  CASE t.tag = "Add" -> <<l[1] * r[2] + r[1] * l[2], l[2] * r[2]>>
               [] t.tag = "Sub" -> <<l[1] * r[2] - r[1] * l[2], l[2] * r[2]>>
               [] t.tag = "Mul" -> <<l[1] * r[1], l[2] * r[2]>>
               [] t.tag = "Div" -> <<l[1] * r[2], l[2] * r[1]>>

\* no Div of a plain tree has a right child denoting zero
RECURSIVE Defined(_)
Defined(t) ==
    IF t.tag = "Number" THEN TRUE
    ELSE /\ Defined(t.left)
         /\ Defined(t.right)
         /\ (t.tag = "Div" => Denote(t.right)[1] # 0)

\* Python number v has the value of fraction q
HasValue(v, q) == v.n * q[2] = q[1] * v.d

Finished == stack = <<>> /\ result # NoResult

(***************************************************************************)
(* C1: an Evaluator's root visit of a tree of Number, Add, Sub, Mul and    *)
(* Div nodes in which no Div has a right child evaluating to zero returns  *)
(* the value the expression denotes; for 1 + 2 * (3 - 4) / 5 it returns    *)
(* 0.6.                                                                    *)
(***************************************************************************)
C1_ArithmeticValue ==
    (cls = "Evaluator" /\ Finished /\ Plain(root) /\ Defined(root)) =>
        /\ result.kind = "value"
        /\ HasValue(result.val, Denote(root))
        /\ (root = t4 => HasValue(result.val, <<6, 10>>))

C1_Witness ==
    /\ cls = "Evaluator" /\ Finished /\ root = t4
    /\ result = Returned([t |-> "float", n |-> 3, d |-> 5])

(***************************************************************************)
(* The handler table of each class, written out.                           *)
(***************************************************************************)
Idx == 1..Len(events)

Handles(c, tag) ==
    \/ c = "Evaluator"
    \/ c = "PartialEvaluator" /\ tag # "Negate"

HandlerName(tag) ==
    CASE tag = "Number" -> "visit_Number"
      [] tag = "Add" -> "visit_Add"
      [] tag = "Sub" -> "visit_Sub"
      [] tag = "Mul" -> "visit_Mul"
      [] tag = "Div" -> "visit_Div"
      [] tag = "Negate" -> "visit_Negate"

MissingMsg(tag) ==
    CASE tag = "Number" -> "No visit_Number method"
      [] tag = "Add" -> "No visit_Add method"
      [] tag = "Sub" -> "No visit_Sub method"
      [] tag = "Mul" -> "No visit_Mul method"
      [] tag = "Div" -> "No visit_Div method"
      [] tag = "Negate" -> "No visit_Negate method"

\* exception e is on its way to, or has reached, the caller of the root call
Surfacing(e) == IF stack = <<>> THEN result = Raised(e) ELSE exc = e

(***************************************************************************)
(* C2: a visit call on a node whose variant has no visit_<Variant> method  *)
(* invokes generic_visit with that node, which raises a RuntimeError       *)
(* naming the missing method, and no value is returned for the node; a     *)
(* node whose variant has a method is routed to exactly that method.       *)
(***************************************************************************)
C2_DefaultHandler ==
    \A i \in Idx :
        (events[i].ev = "call" /\ i < Len(events)) =>
            LET p == events[i].node
                tag == NodeAt(root, p).tag
                nxt == events[i + 1]
            IN  /\ nxt.ev = "enter" /\ nxt.node = p
                /\ IF Handles(cls, tag)
                   THEN nxt.by = HandlerName(tag)
                   ELSE /\ nxt.by = "generic_visit"
                        /\ (i + 1 < Len(events) =>
                              /\ Len(events) = i + 2
                              /\ events[i + 2].ev = "raise" /\ events[i + 2].node = p
                              /\ events[i + 2].by = "generic_visit"
                              /\ Surfacing(Exception("RuntimeError", MissingMsg(tag), p)))
                        /\ \A j \in Idx :
                              events[j].node = p => events[j].ev \notin {"return", "exit"}

C2_Witness ==
    /\ cls = "PartialEvaluator" /\ Finished
    /\ root = Add(Number(1), Negate(Scalar(1)))
    /\ result = Raised(Exception("RuntimeError", "No visit_Negate method", <<"right">>))
    /\ \E i \in Idx : events[i] = Event("enter", <<"left">>, "visit_Number", <<>>)
    /\ \E i \in Idx : events[i] = Event("enter", <<"right">>, "generic_visit", <<>>)

HasNegate(t) == \E p \in Paths(t) : NodeAt(t, p).tag = "Negate"

\* the positions in the log where a handler is invoked on a Negate node
NegateEntered == { i \in Idx : events[i].ev = "enter" /\ NodeAt(root, events[i].node).tag = "Negate" }

\* after log position i no visit call is made and no handler is invoked
NothingVisitedAfter(i) == \A j \in Idx : j > i => events[j].ev \notin {"call", "enter"}

(***************************************************************************)
(* C3 as stated: with a strategy that has no visit_Negate, evaluating any  *)
(* tree that contains a Negate node raises the unhandled-variant error for *)
(* Negate, and nothing is visited after the Negate node is reached.        *)
(***************************************************************************)
C3_AsStated ==
    (cls = "PartialEvaluator" /\ HasNegate(root)) =>
        /\ Finished =>
              /\ result.kind = "error"
              /\ result.exc.type = "RuntimeError"
              /\ result.exc.msg = "No visit_Negate method"
        /\ \A i \in NegateEntered : NothingVisitedAfter(i)

(***************************************************************************)
(* C3 amended: with a strategy that has no visit_Negate, evaluating any    *)
(* tree that contains a Negate node raises an error: the unhandled-variant *)
(* error for the first Negate node reached, unless a division by zero is   *)
(* raised before any Negate node is reached, and then that                 *)
(* ZeroDivisionError; nothing is visited after a Negate node is reached.   *)
(***************************************************************************)
C3_FirstErrorAborts ==
    (cls = "PartialEvaluator" /\ HasNegate(root)) =>
        /\ Finished =>
              /\ result.kind = "error"
              /\ IF NegateEntered # {}
                 THEN \E i \in NegateEntered :
                        result.exc = Exception("RuntimeError", "No visit_Negate method",
                                               events[i].node)
                 ELSE /\ result.exc.type = "ZeroDivisionError"
                      /\ NodeAt(root, result.exc.node).tag = "Div"
        /\ \A i \in NegateEntered : NothingVisitedAfter(i)
        /\ Cardinality(NegateEntered) <= 1

\* the Negate is the right sibling of an evaluated left subtree, inside the
\* left subtree of the root: the root's right subtree is never visited
C3_Witness ==
    /\ cls = "PartialEvaluator" /\ Finished
    /\ root = Add(Sub(Number(1), Negate(Scalar(1))), Number(1))
    /\ result = Raised(Exception("RuntimeError", "No visit_Negate method", <<"left", "right">>))
    /\ \A i \in Idx : events[i].node # <<"right">>

\* the nodes of the log entries of one kind, in log order
NodesOf(ev) ==
    LET sel == SelectSeq(events, LAMBDA e : e.ev = ev)
    IN  [i \in 1..Len(sel) |-> sel[i].node]

\* the nodes of tree t that are visited, in depth-first left-to-right order,
\* a parent before its children (the operand of a Negate is not visited)
RECURSIVE PreOrder(_, _)
PreOrder(t, p) ==
    IF IsBinary(t)
    THEN <<p>> \o PreOrder(t.left, p \o <<"left">>) \o PreOrder(t.right, p \o <<"right">>)
    ELSE <<p>>

\* the same nodes, a parent after its children
RECURSIVE PostOrder(_, _)
PostOrder(t, p) ==
    IF IsBinary(t)
    THEN PostOrder(t.left, p \o <<"left">>) \o PostOrder(t.right, p \o <<"right">>) \o <<p>>
    ELSE <<p>>

(***************************************************************************)
(* C4: traversing Add(Number(1), Mul(Number(2), Number(3))) produces the   *)
(* results in the order Number(1), Number(2), Number(3), Mul, Add, and     *)
(* enters the nodes in the order Add, Number(1), Mul, Number(2),           *)
(* Number(3).                                                              *)
(***************************************************************************)
C4_VisitOrder ==
    /\ (cls = "Evaluator" /\ root = OrderTree /\ Finished) =>
        /\ NodesOf("return") =
              << <<"left">>, <<"right", "left">>, <<"right", "right">>, <<"right">>, <<>> >>
        /\ NodesOf("enter") =
              << <<>>, <<"left">>, <<"right">>, <<"right", "left">>, <<"right", "right">> >>
    /\ (Finished /\ result.kind = "value") =>
        /\ NodesOf("return") = PostOrder(root, <<>>)
        /\ NodesOf("enter") = PreOrder(root, <<>>)

C4_Witness ==
    /\ cls = "Evaluator" /\ root = OrderTree /\ Finished
    /\ result = Returned(float(7))
    /\ Len(NodesOf("return")) = 5

\* path a lies in the left subtree and path b in the right subtree of one
\* (binary) node: the paths agree up to that node and part there
LeftRightOf(a, b) ==
    \E k \in 1..Len(a) :
        /\ k <= Len(b)
        /\ a[k] = "left" /\ b[k] = "right"
        /\ \A m \in 1..(k - 1) : a[m] = b[m]

(***************************************************************************)
(* C5: for every binary node, everything logged for the nodes of its left  *)
(* subtree precedes everything logged for the nodes of its right subtree,  *)
(* and the order in which nodes are entered is the depth-first             *)
(* left-to-right order of the tree (cut short by the first error).         *)
(***************************************************************************)
C5_LeftBeforeRight ==
    /\ \A j \in Idx : \A i \in j..Len(events) :
          ~LeftRightOf(events[i].node, events[j].node)
    /\ IsPrefix(NodesOf("enter"), PreOrder(root, <<>>))
    /\ (Finished /\ result.kind = "value") => NodesOf("enter") = PreOrder(root, <<>>)

\* both children of the root are operators and all seven nodes were visited
C5_Witness ==
    /\ cls = "Evaluator" /\ Finished /\ result.kind = "value"
    /\ root = Mul(Add(Number(1), Number(2)), Sub(Number(3), Negate(Scalar(1))))
    /\ Len(NodesOf("enter")) = 7

\* the log positions at which an exception is raised
RaisedAt == { i \in Idx : events[i].ev = "raise" }

(***************************************************************************)
(* C6: an exception raised by a handler or by generic_visit reaches the    *)
(* caller of the root visit call as that same exception: while it passes   *)
(* through the enclosing frames it is not caught or replaced, nothing is   *)
(* invoked, called or returned after it is raised, and the root call gives *)
(* no value.                                                               *)
(***************************************************************************)
C6_ErrorPropagates ==
    /\ \A i \in RaisedAt :
          /\ i = Len(events)
          /\ events[i].val # <<>>
          /\ Surfacing(events[i].val[1])
          /\ events[i].val[1].node = events[i].node
          /\ result.kind # "value"
    /\ (RaisedAt = {}) => (exc = NoException /\ result.kind # "error")

\* raised three levels below the root and delivered to the root's caller
C6_Witness ==
    /\ cls = "Evaluator" /\ Finished
    /\ root = Add(Number(1), Mul(Number(2), Div(Number(3), Sub(Number(1), Number(1)))))
    /\ result = Raised(Exception("ZeroDivisionError", "float division by zero",
                                 <<"right", "right">>))
    /\ RaisedAt = {Len(events)}

\* the log positions at which the right child of a Div node hands back zero
ZeroDivisorAt ==
    { i \in Idx :
        /\ events[i].ev = "exit"
        /\ events[i].node # <<>>
        /\ events[i].node[Len(events[i].node)] = "right"
        /\ NodeAt(root, Pop(events[i].node)).tag = "Div"
        /\ events[i].val[1].n = 0 }

(***************************************************************************)
(* C7: a Div node whose right child evaluates to zero is not guarded: both *)
(* children are evaluated, then visit_Div raises ZeroDivisionError, and    *)
(* that exception is what the caller of the root visit call gets, at any   *)
(* depth of the Div node.                                                  *)
(***************************************************************************)
C7_DivisionByZero ==
    \A i \in ZeroDivisorAt :
        LET div == Pop(events[i].node) IN
        /\ \E j \in 1..(i - 1) :
              events[j].ev = "exit" /\ events[j].node = div \o <<"left">>
        /\ Len(events) > i =>
              /\ Len(events) = i + 1
              /\ events[i + 1].ev = "raise"
              /\ events[i + 1].by = "visit_Div"
              /\ events[i + 1].node = div
              /\ events[i + 1].val[1].type = "ZeroDivisionError"
              /\ Surfacing(events[i + 1].val[1])
        /\ Finished =>
              /\ Len(events) = i + 1
              /\ result.kind = "error"
              /\ result.exc.type = "ZeroDivisionError"
              /\ result.exc.node = div

\* the divisor is a computed zero, the Div is below the root, and the root's
\* right subtree is never visited
C7_Witness ==
    /\ cls = "Evaluator" /\ Finished
    /\ root = Sub(Div(Number(1), Sub(Number(1), Number(1))), Add(Number(1), Number(2)))
    /\ ZeroDivisorAt # {}
    /\ result = Raised(Exception("ZeroDivisionError", "float division by zero", <<"left">>))

\* the node at path p is a Negate whose operand field holds a scalar
ScalarNegate(p) ==
    /\ NodeAt(root, p).tag = "Negate"
    /\ NodeAt(root, p).operand.tag = "int"

(***************************************************************************)
(* C8: visit_Negate returns the negation of the value stored in the        *)
(* node's operand field and makes no visit call for the operand: for       *)
(* Negate(x) with x a scalar the result is -x, after exactly one handler   *)
(* invocation for the node.                                                *)
(***************************************************************************)
C8_NegateOperand ==
    /\ \A i \in Idx :
          /\ (events[i].ev = "call" /\ events[i].node # <<>>) =>
                events[i].node[Len(events[i].node)] # "operand"
          /\ (events[i].by = "visit_Negate" /\ events[i].ev = "return") =>
                /\ ScalarNegate(events[i].node)
                /\ events[i].val = <<PyInt(0 - NodeAt(root, events[i].node).operand.value)>>
          /\ (events[i].by = "visit_Negate" /\ events[i].ev = "enter"
                /\ ScalarNegate(events[i].node) /\ i < Len(events)) =>
                /\ events[i + 1].ev = "return"
                /\ events[i + 1].node = events[i].node
                /\ \A j \in Idx : (events[j].ev = "enter" /\ events[j].node = events[i].node) => j = i
    /\ (cls = "Evaluator" /\ ScalarNegate(<<>>) /\ Finished) =>
          /\ result = Returned(PyInt(0 - root.operand.value))
          /\ Len(events) = 4
          /\ Len(NodesOf("enter")) = 1

C8_Witness ==
    /\ cls = "Evaluator" /\ Finished
    /\ root = Add(Number(1), Negate(Scalar(2)))
    /\ result = Returned(float(0 - 1))
    /\ \E i \in Idx : events[i] = Event("return", <<"right">>, "visit_Negate", <<PyInt(0 - 2)>>)

BinaryHandlerNames == {"visit_Add", "visit_Sub", "visit_Mul", "visit_Div"}

\* the log positions at which a binary-operator handler is invoked
BinaryEntered == { i \in Idx : events[i].ev = "enter" /\ events[i].by \in BinaryHandlerNames }

(***************************************************************************)
(* C9 as stated: a binary-operator handler is invoked only after both of   *)
(* its children have been dispatched, and no visit call is ever issued     *)
(* from inside a binary-operator handler.                                  *)
(***************************************************************************)
C9_AsStated ==
    /\ \A i \in Idx : events[i].ev = "call" => events[i].by \notin BinaryHandlerNames
    /\ \A i \in BinaryEntered :
          /\ \E j \in 1..(i - 1) :
                events[j].ev = "exit" /\ events[j].node = events[i].node \o <<"left">>
          /\ \E j \in 1..(i - 1) :
                events[j].ev = "exit" /\ events[j].node = events[i].node \o <<"right">>

(***************************************************************************)
(* C9 amended: a binary-operator handler is invoked with the raw node      *)
(* before either of its children is dispatched; the handler itself issues  *)
(* the two visit calls, left then right, and hands back its result only    *)
(* after both calls have returned; every visit call other than the root's  *)
(* is issued from inside the binary-operator handler of the parent node.   *)
(***************************************************************************)
C9_HandlerRecurses ==
    \A j \in Idx :
        LET e == events[j]
            q == e.node
        IN  /\ (e.ev = "enter" /\ e.by \in BinaryHandlerNames) =>
                  /\ e.by = HandlerName(NodeAt(root, q).tag)
                  /\ \A m \in 1..j : IsPrefix(q, events[m].node) => events[m].node = q
                  /\ j < Len(events) => events[j + 1] = Event("call", q \o <<"left">>, e.by, <<>>)
            /\ (e.ev = "call" /\ q # <<>>) =>
                  /\ e.by = HandlerName(NodeAt(root, Pop(q)).tag)
                  /\ e.by \in BinaryHandlerNames
                  /\ IF q[Len(q)] = "left"
                     THEN events[j - 1] = Event("enter", Pop(q), e.by, <<>>)
                     ELSE /\ q[Len(q)] = "right"
                          /\ events[j - 1].ev = "exit"
                          /\ events[j - 1].node = Pop(q) \o <<"left">>
            /\ (e.ev \in {"return", "raise"} /\ e.by \in BinaryHandlerNames) =>
                  /\ events[j - 1].ev = "exit"
                  /\ events[j - 1].node = q \o <<"right">>
                  /\ \E m \in 1..(j - 1) :
                        events[m].ev = "exit" /\ events[m].node = q \o <<"left">>

C9_Witness ==
    /\ cls = "Evaluator" /\ Finished
    /\ root = Div(Number(1), Number(2))
    /\ result = Returned([t |-> "float", n |-> 1, d |-> 2])
    /\ events[2] = Event("enter", <<>>, "visit_Div", <<>>)
    /\ events[3] = Event("call", <<"left">>, "visit_Div", <<>>)
    /\ events[7] = Event("call", <<"right">>, "visit_Div", <<>>)
    /\ Len(events) = 12

Runs == 1..Len(outcomes)

(***************************************************************************)
(* C10: on one visitor instance, every root visit call of the same tree    *)
(* has the same outcome (the same value or the same exception), whatever   *)
(* traversals of this or of other trees the instance ran before.           *)
(***************************************************************************)
C10_RepeatableOutcome ==
    \A i, j \in Runs :
        outcomes[i].tree = outcomes[j].tree => outcomes[i].out = outcomes[j].out

\* the same tree evaluated before and after a traversal of another tree that
\* ended with an exception
C10_Witness ==
    /\ cls = "Evaluator" /\ Finished
    /\ Len(outcomes) = 3
    /\ outcomes[1].tree = t4 /\ outcomes[3].tree = t4
    /\ outcomes[2].tree = Div(Number(1), Number(0))
    /\ outcomes[2].out.kind = "error"
    /\ outcomes[3].out = Returned([t |-> "float", n |-> 3, d |-> 5])

\* the node at path p is a Negate whose operand field holds a Node
NodeNegate(p) ==
    /\ NodeAt(root, p).tag = "Negate"
    /\ NodeAt(root, p).operand.tag # "int"

(***************************************************************************)
(* C17 as stated: evaluating a Negate node whose operand is a Node         *)
(* completes without raising any error and returns a value (one that is    *)
(* not the negation of the operand subtree's value).                       *)
(***************************************************************************)
C17_AsStated ==
    (cls = "Evaluator" /\ NodeNegate(<<>>) /\ Finished) => result.kind = "value"

(***************************************************************************)
(* C17 amended: evaluating a Negate node whose operand is a Node returns   *)
(* no value: visit_Negate applies unary minus to the Node object, which    *)
(* raises TypeError; the operand subtree is never visited and the          *)
(* TypeError is what the caller of the root visit call gets.               *)
(***************************************************************************)
C17_NegateOfNodeRaises ==
    /\ \A i \in Idx :
          (events[i].ev = "enter" /\ events[i].by = "visit_Negate"
              /\ NodeNegate(events[i].node)) =>
              /\ i < Len(events) =>
                    /\ Len(events) = i + 1
                    /\ events[i + 1].ev = "raise"
                    /\ events[i + 1].node = events[i].node
                    /\ events[i + 1].val[1].type = "TypeError"
              /\ Finished =>
                    /\ result.kind = "error"
                    /\ result.exc.type = "TypeError"
                    /\ result.exc.node = events[i].node
    /\ (cls = "Evaluator" /\ NodeNegate(<<>>) /\ Finished) =>
          /\ result.kind = "error"
          /\ result.exc.type = "TypeError"
          /\ Len(NodesOf("enter")) = 1

C17_Witness ==
    /\ cls = "Evaluator" /\ Finished
    /\ root = Negate(Add(Number(1), Number(2)))
    /\ result = Raised(Exception("TypeError", "bad operand type for unary -: 'Add'", <<>>))

(***************************************************************************)
(* One traversal run to its end: the interpreter keeps executing the       *)
(* synchronous call chain of visit(root) for as long as a step is left.    *)
(***************************************************************************)
SpecLive == Init /\ [][Next]_vars /\ WF_vars(Next)

\* the handler invocations triggered by the node at path p
EnteredAt(p) == { i \in Idx : events[i].ev = "enter" /\ events[i].node = p }

(***************************************************************************)
(* C12: visit(root) terminates, with a value or with the first error; in   *)
(* a traversal that ends with a value every node of the tree triggers      *)
(* exactly one handler invocation; and a Number node's handler returns     *)
(* the node's value without issuing any further visit call.                *)
(***************************************************************************)
C12_Terminates ==
    /\ <>Finished
    /\ [](Finished =>
            \/ result.kind = "value" /\ RaisedAt = {}
            \/ /\ result.kind = "error"
               /\ Cardinality(RaisedAt) = 1
               /\ \A i \in RaisedAt : result.exc = events[i].val[1])
    /\ []((Finished /\ result.kind = "value") =>
            \A p \in Paths(root) : Cardinality(EnteredAt(p)) = 1)
    /\ [](\A i \in Idx :
            (events[i].ev = "enter" /\ events[i].by = "visit_Number" /\ i < Len(events)) =>
                events[i + 1] = Event("return", events[i].node, "visit_Number",
                                      <<float(NodeAt(root, events[i].node).value)>>))

C12_Witness ==
    /\ cls = "Evaluator" /\ Finished /\ root = t4
    /\ result.kind = "value"
    /\ \A p \in Paths(root) : Cardinality(EnteredAt(p)) = 1
    /\ Cardinality({ i \in Idx : events[i].by = "visit_Number" /\ events[i].ev = "return" }) = 5

(***************************************************************************)
(* One tree instance handed to several strategies in sequence: after a     *)
(* root call has returned or raised, a new visitor instance of any class   *)
(* visits the same tree.                                                   *)
(***************************************************************************)
\* strategies that visit the one tree under SpecShared
MaxStrategies == 2

SharedTrees == TreesUpTo(1, ValueLeaves) \cup Fixtures

InitShared ==
    /\ cls \in Classes
    /\ attrs = <<>>
    /\ root \in SharedTrees
    /\ stack = <<>>
    /\ exc = NoException
    /\ result = NoResult
    /\ events = <<>>
    /\ outcomes = <<>>
    /\ OneThread
    /\ ElsewhereStart

\* c().visit(root) at module level, with the tree of the previous call
NextStrategy ==
    /\ stack = <<>> /\ result # NoResult /\ Len(outcomes) < MaxStrategies
    /\ \E c \in Classes :
          /\ cls' = c
          /\ attrs' = <<>>
    /\ stack' = <<Frame("visit", <<>>)>>
    /\ events' = <<Event("call", <<>>, "module", <<>>)>>
    /\ result' = NoResult
    /\ UNCHANGED <<elsewhere, tid, parked, root, exc, outcomes>>

NextShared == Call \/ NextStrategy \/ Step

SpecShared == InitShared /\ [][NextShared]_vars

(***************************************************************************)
(* C11: no traversal changes the tree: no step of a traversal, whether the *)
(* traversal returns or raises, changes the variant or a field of any      *)
(* node, so the tree handed to two strategies in sequence is structurally  *)
(* equal before, between and after the two traversals.                     *)
(***************************************************************************)
C11_TreeUnchanged ==
    /\ [][root' = root]_vars
    /\ [](\A i \in Runs : outcomes[i].tree = root)

C11_Witness ==
    /\ Finished /\ Len(outcomes) = 2
    /\ root = Add(Number(1), Negate(Scalar(1)))
    /\ cls = "Evaluator"
    /\ outcomes[1].out.kind = "error"
    /\ outcomes[2].out = Returned(float(0))
    /\ outcomes[1].tree = root /\ outcomes[2].tree = root

(***************************************************************************)
(* Several traversals of one tree in threads of one interpreter.  The      *)
(* interpreter runs one thread at a time and may switch threads between    *)
(* any two steps; cls, stack, exc, result, events and outcomes are the     *)
(* context of the running thread, and the contexts of the others are       *)
(* parked.  The threads either all call visit on one visitor instance (one *)
(* instance dictionary) or each on an instance of its own.                 *)
(***************************************************************************)
\* threads traversing the one tree under SpecThreads
MaxThreads == 2

ThreadTrees ==
    { Number(1), Negate(Scalar(1)), Negate(Number(1)),
      Div(Number(1), Number(0)), Add(Number(1), Negate(Scalar(1))) }

\* the context of a thread that has not started its visit call yet
NewThread(c, own) ==
    [cls |-> c, attrs |-> <<>>, stack |-> <<>>, exc |-> NoException,
     result |-> NoResult, events |-> <<>>, outcomes |-> <<>>, own |-> own]

InitThreads ==
    /\ root \in ThreadTrees
    /\ attrs = <<>>
    /\ stack = <<>>
    /\ exc = NoException
    /\ result = NoResult
    /\ events = <<>>
    /\ outcomes = <<>>
    /\ tid = 1
    /\ ElsewhereStart
    /\ \E n \in 2..MaxThreads :
          \/ \E c \in Classes :
                /\ cls = c
                /\ parked = [k \in 2..n |-> NewThread(c, FALSE)]
          \/ /\ cls \in Classes
             /\ parked \in [2..n -> { NewThread(c, TRUE) : c \in Classes }]

\* the interpreter switches to thread k, which has steps left to run
Switch(k) ==
    LET to == parked[k]
        own == to.own
        from == [cls |-> cls, attrs |-> attrs, stack |-> stack, exc |-> exc,
                 result |-> result, events |-> events, outcomes |-> outcomes,
                 own |-> own]
    IN  /\ to.stack # <<>> \/ to.result = NoResult
        /\ tid' = k
        /\ parked' = [j \in (DOMAIN parked \ {k}) \cup {tid} |->
                        IF j = tid THEN from ELSE parked[j]]
        /\ cls' = to.cls
        /\ attrs' = IF own THEN to.attrs ELSE attrs
        /\ stack' = to.stack
        /\ exc' = to.exc
        /\ result' = to.result
        /\ events' = to.events
        /\ outcomes' = to.outcomes
        /\ UNCHANGED <<elsewhere, root>>

NextThreads == Call \/ Step \/ \E k \in DOMAIN parked : Switch(k)

SpecThreads == InitThreads /\ [][NextThreads]_vars

\* what visit gives its caller for the node at path p of tree t when a
\* visitor of class c runs alone
RECURSIVE Alone(_, _, _)
Alone(c, t, p) ==
    IF ("visit_" \o t.tag) \notin Methods(c)
    THEN Raised(Exception("RuntimeError", MissingMsg(t.tag), p))
    ELSE IF t.tag = "Number" THEN Returned(float(t.value))
    ELSE IF t.tag = "Negate"
    THEN IF t.operand.tag = "int" THEN Returned(PyNeg(PyInt(t.operand.value)))
         ELSE Raised(Exception("TypeError",
                               "bad operand type for unary -: '" \o t.operand.tag \o "'", p))
    ELSE LET l == Alone(c, t.left, p \o <<"left">>)
             r == Alone(c, t.right, p \o <<"right">>)
         IN  IF l.kind = "error" THEN l
             ELSE IF r.kind = "error" THEN r
             ELSE Apply(t.tag, l.val, r.val, p)

\* the root calls that have ended: <<class, result>> of every thread whose
\* visit call has returned or raised
Ended ==
    { <<parked[k].cls, parked[k].result>> :
        k \in { j \in DOMAIN parked : parked[j].stack = <<>> /\ parked[j].result # NoResult } }
    \cup (IF Finished THEN { <<cls, result>> } ELSE {})

(***************************************************************************)
(* C13: two or more traversals of one tree, on one visitor instance or on  *)
(* different ones, with their steps interleaved in any order and no lock,  *)
(* each give the result a traversal run alone gives, and no step of any    *)
(* interleaving changes a field of a node.                                 *)
(***************************************************************************)
C13_InterleavedTraversals ==
    /\ [](\A e \in Ended : e[2] = Alone(e[1], root, <<>>))
    /\ [][root' = root]_vars

C13_Witness ==
    /\ root = Add(Number(1), Negate(Scalar(1)))
    /\ tid = 1 /\ Finished /\ cls = "Evaluator" /\ result = Returned(float(0))
    /\ 2 \in DOMAIN parked
    /\ ~parked[2].own
    /\ Len(parked[2].stack) = 3
    /\ \E i \in 1..Len(parked[2].events) : parked[2].events[i].by = "visit_Number"

(***************************************************************************)
(* behavioral/visitor.py before the visit call of its __main__ block.      *)
(***************************************************************************)
VisitorStart ==
    /\ cls = "Evaluator"
    /\ attrs = <<>>
    /\ root = t4
    /\ stack = <<>>
    /\ exc = NoException
    /\ result = NoResult
    /\ events = <<>>
    /\ outcomes = <<>>
    /\ OneThread

(***************************************************************************)
(* creational/singleton.py: the four singleton classes.  An instantiation  *)
(* call Class() is type.__call__ (or the metaclass's __call__): it calls   *)
(* Class.__new__ and then __init__ on the object __new__ returned, which   *)
(* is an instance of Class in every variant.                               *)
(***************************************************************************)
\* instantiation calls made under SpecSingleton
MaxCalls == 6

SingletonClasses ==
    {"DBConnectionSingleton", "DBConnectionMixed", "DBConnectionDecorated", "DBConnectionFancy"}

\* object.__new__(c): a new object of class c, on which __init__ has not run
NewObject(c) == [class |-> c, inits |-> 0]

\* DBConnection.__init__ on object o of heap h: the actions which must not
\* be executed twice are executed
DBConnection_init(h, o) == [h EXCEPT ![o].inits = @ + 1]

\* what an instantiation call that returns object o leaves in calls
Called(c, o) == Append(calls, [class |-> c, obj |-> o])

InitSingleton == SingletonStart /\ VisitorStart /\ ConnectionStart /\ NewspaperStart

\* DBConnectionSingleton() as it would be with a __new__ that does not keep
\* the instance: return super(...).__new__(cls)
DBConnectionSingleton_uncached ==
    /\ Len(calls) < MaxCalls
    /\ LET c == "DBConnectionSingleton"
           obj == Len(heap) + 1
       IN  /\ heap' = DBConnection_init(Append(heap, NewObject(c)), obj)
           /\ calls' = Called(c, obj)
    /\ UNCHANGED <<_instance, _instances, notSingleton>>

\* DBConnectionSingleton(): DBConnectionSingleton.__new__, then __init__
DBConnectionSingleton ==
    /\ Len(calls) < MaxCalls
    /\ LET c == "DBConnectionSingleton"
           create == _instance[c] = None
           obj == IF create THEN Len(heap) + 1 ELSE _instance[c]
           h == IF create THEN Append(heap, NewObject(c)) ELSE heap
       IN  /\ _instance' = [_instance EXCEPT ![c] = obj]
           /\ heap' = DBConnection_init(h, obj)
           /\ calls' = Called(c, obj)
    /\ UNCHANGED <<_instances, notSingleton>>

\* DBConnectionMixed(): SingletonMixin.__new__, then __init__
DBConnectionMixed ==
    /\ Len(calls) < MaxCalls
    /\ LET c == "DBConnectionMixed"
           create == c \notin DOMAIN _instances
           obj == IF create THEN Len(heap) + 1 ELSE _instances[c]
           h == IF create THEN Append(heap, NewObject(c)) ELSE heap
       IN  /\ _instances' = IF create THEN (c :> obj) @@ _instances ELSE _instances
           /\ heap' = DBConnection_init(h, obj)
           /\ calls' = Called(c, obj)
    /\ UNCHANGED <<_instance, notSingleton>>

\* DBConnectionDecorated(): the name is bound to SingletonWrapper, a subclass
\* of the decorated class: SingletonWrapper.__new__, then __init__
DBConnectionDecorated ==
    /\ Len(calls) < MaxCalls
    /\ LET c == "DBConnectionDecorated"
           create == _instance[c] = None
           obj == IF create THEN Len(heap) + 1 ELSE _instance[c]
           h == IF create THEN Append(heap, NewObject("SingletonWrapper")) ELSE heap
       IN  /\ _instance' = [_instance EXCEPT ![c] = obj]
           /\ heap' = DBConnection_init(h, obj)
           /\ calls' = Called(c, obj)
    /\ UNCHANGED <<_instances, notSingleton>>

\* DBConnectionFancy(): SingletonMeta.__call__, which makes the instantiation
\* call of type (__new__, then __init__) only while _instance is None
DBConnectionFancy ==
    /\ Len(calls) < MaxCalls
    /\ LET c == "DBConnectionFancy"
           create == _instance[c] = None
           obj == IF create THEN Len(heap) + 1 ELSE _instance[c]
           h == IF create THEN DBConnection_init(Append(heap, NewObject(c)), obj) ELSE heap
       IN  /\ _instance' = [_instance EXCEPT ![c] = obj]
           /\ heap' = h
           /\ calls' = Called(c, obj)
    /\ UNCHANGED <<_instances, notSingleton>>

NextSingleton ==
    \/ DBConnectionSingleton \/ DBConnectionMixed
    \/ DBConnectionDecorated \/ DBConnectionFancy

SpecSingleton == InitSingleton /\ [][NextSingleton]_vars

CallIdx == 1..Len(calls)

(***************************************************************************)
(* C14: after any number of instantiation calls of the four singleton      *)
(* classes, every call of one class has returned the same one instance of  *)
(* that class, and calls of distinct classes never returned the same       *)
(* instance.                                                               *)
(***************************************************************************)
C14_OneInstancePerClass ==
    /\ \A i \in CallIdx :
          /\ calls[i].class \in SingletonClasses
          /\ calls[i].obj \in 1..Len(heap)
          /\ heap[calls[i].obj].class =
                (IF calls[i].class = "DBConnectionDecorated" THEN "SingletonWrapper"
                 ELSE calls[i].class)
    /\ \A i, j \in CallIdx :
          (calls[i].class = calls[j].class) <=> (calls[i].obj = calls[j].obj)
    /\ Len(heap) <= Cardinality(SingletonClasses)

C14_Witness ==
    /\ Len(calls) = 6
    /\ { calls[i].class : i \in CallIdx } = SingletonClasses
    /\ Len(heap) = 4
    /\ calls[1].class = calls[6].class /\ calls[1].obj = calls[6].obj
    /\ calls[2].class = calls[5].class /\ calls[2].obj = calls[5].obj

(***************************************************************************)
(* C18: for every singleton variant, DBConnection.__init__ runs at most    *)
(* once on the single instance, however many times the class is            *)
(* instantiated.                                                           *)
(***************************************************************************)
C18_InitRunsOnce ==
    \A o \in 1..Len(heap) : heap[o].inits <= 1

(***************************************************************************)
(* behavioral/state.py: the class-swapping Connection and the state-object *)
(* Connection, created as ConnectionStart says and called side by side.    *)
(***************************************************************************)
\* calls made on the two connections under SpecConnection
MaxSteps == 4

\* the data handed to write
Data == {"data", ""}

\* what a call gives its caller: the string returned or the error raised
Str(s) == [kind |-> "value", type |-> "str", val |-> s]
NotImplementedError(msg) == [kind |-> "error", type |-> "NotImplementedError", val |-> msg]

\* a method of the class-swapping ConnectionOpened, called on an object of
\* that class: what it gives and the class of the object afterwards
ConnectionOpened_swapping(call, data) ==
    CASE call = "read" -> [out |-> Str("reading..."), class |-> "ConnectionOpened"]
      [] call = "write" -> [out |-> Str("writing " \o data), class |-> "ConnectionOpened"]
      [] call = "open" ->
            [out |-> NotImplementedError("Connection is already opened"),
             class |-> "ConnectionOpened"]
      [] call = "close" -> [out |-> Str("closing connection..."), class |-> "ConnectionClosed"]

\* the class-swapping ConnectionClosed as it would be if open did not swap
\* the class: return 'opening connection...' without self.set_state(...)
ConnectionClosed_swapping_stuck(call, data) ==
    CASE call = "read" ->
            [out |-> NotImplementedError("Can not read from the closed connection"),
             class |-> "ConnectionClosed"]
      [] call = "write" ->
            [out |-> NotImplementedError("Can not write to the closed connection"),
             class |-> "ConnectionClosed"]
      [] call = "open" -> [out |-> Str("opening connection..."), class |-> "ConnectionClosed"]
      [] call = "close" ->
            [out |-> NotImplementedError("Connection is already closed"),
             class |-> "ConnectionClosed"]

\* a method of the class-swapping ConnectionClosed
ConnectionClosed_swapping(call, data) ==
    CASE call = "read" ->
            [out |-> NotImplementedError("Can not read from the closed connection"),
             class |-> "ConnectionClosed"]
      [] call = "write" ->
            [out |-> NotImplementedError("Can not write to the closed connection"),
             class |-> "ConnectionClosed"]
      [] call = "open" -> [out |-> Str("opening connection..."), class |-> "ConnectionOpened"]
      [] call = "close" ->
            [out |-> NotImplementedError("Connection is already closed"),
             class |-> "ConnectionClosed"]

\* a method call on the class-swapping connection: the method of its
\* current class
Connection_swapping(call, data) ==
    IF __class__ = "ConnectionOpened" THEN ConnectionOpened_swapping(call, data)
    ELSE ConnectionClosed_swapping(call, data)

\* the state-object ConnectionOpened as it would be if open were accepted
\* on an opened connection: return 'opening connection...'
ConnectionOpened_reopening(conn, call, data) ==
    CASE call = "read" -> [out |-> Str("reading..."), connection |-> conn]
      [] call = "write" -> [out |-> Str("writing " \o data), connection |-> conn]
      [] call = "open" -> [out |-> Str("opening connection..."), connection |-> conn]
      [] call = "close" ->
            [out |-> Str("closing connection..."),
             connection |-> [conn EXCEPT !.state = conn.closed_state]]

\* a method of the state object ConnectionOpened, handed connection conn:
\* what it gives and the attributes of conn afterwards
ConnectionOpened(conn, call, data) ==
    CASE call = "read" -> [out |-> Str("reading..."), connection |-> conn]
      [] call = "write" -> [out |-> Str("writing " \o data), connection |-> conn]
      [] call = "open" ->
            [out |-> NotImplementedError("Connection is already opened"), connection |-> conn]
      [] call = "close" ->
            [out |-> Str("closing connection..."),
             connection |-> [conn EXCEPT !.state = conn.closed_state]]

\* a method of the state object ConnectionClosed
ConnectionClosed(conn, call, data) ==
    CASE call = "read" ->
            [out |-> NotImplementedError("Can not read from the closed connection"),
             connection |-> conn]
      [] call = "write" ->
            [out |-> NotImplementedError("Can not write to the closed connection"),
             connection |-> conn]
      [] call = "open" ->
            [out |-> Str("opening connection..."),
             connection |-> [conn EXCEPT !.state = conn.opened_state]]
      [] call = "close" ->
            [out |-> NotImplementedError("Connection is already closed"), connection |-> conn]

\* a method of the state-object Connection: delegate to self.state
Connection(conn, call, data) ==
    IF conn.state.class = "ConnectionOpened" THEN ConnectionOpened(conn, call, data)
    ELSE ConnectionClosed(conn, call, data)

InitConnection == ConnectionStart /\ VisitorStart /\ SingletonStart /\ NewspaperStart

\* one call made on both connections
Invoke(call, data) ==
    /\ Len(trace) < MaxSteps
    /\ LET swapping == Connection_swapping(call, data)
           delegating == Connection(connection, call, data)
       IN  /\ __class__' = swapping.class
           /\ connection' = delegating.connection
           /\ trace' = Append(trace,
                  [call |-> call, data |-> data,
                   swapping |-> swapping.out, class |-> swapping.class,
                   before |-> connection.state,
                   delegating |-> delegating.out, after |-> delegating.connection.state])
    /\ UNCHANGED notConnection

open == Invoke("open", "")
close == Invoke("close", "")
read == Invoke("read", "")
write == \E data \in Data : Invoke("write", data)

NextConnection == open \/ close \/ read \/ write

SpecConnection == InitConnection /\ [][NextConnection]_vars

Steps == 1..Len(trace)

\* the state-object connection is opened / closed when its state attribute
\* is state object s
IsOpened(s) == s = connection.opened_state
IsClosed(s) == s = connection.closed_state

(***************************************************************************)
(* C15: the state-object Connection is closed when created; open succeeds  *)
(* exactly when it is closed and leaves it opened; close succeeds exactly  *)
(* when it is opened and leaves it closed; read and write succeed exactly  *)
(* when it is opened and leave the state as it was; every rejected call    *)
(* raises NotImplementedError and leaves the state as it was; the state is *)
(* always one of opened and closed.                                        *)
(***************************************************************************)
C15_ConnectionStates ==
    /\ IsOpened(connection.state) # IsClosed(connection.state)
    /\ connection.opened_state = StateObject("ConnectionOpened")
    /\ connection.closed_state = StateObject("ConnectionClosed")
    /\ trace = <<>> => IsClosed(connection.state)
    /\ \A i \in Steps :
          LET c == trace[i] IN
          /\ c.before = (IF i = 1 THEN connection.closed_state ELSE trace[i - 1].after)
          /\ i = Len(trace) => c.after = connection.state
          /\ c.delegating.kind \in {"value", "error"}
          /\ c.call = "open" =>
                /\ (c.delegating.kind = "value") <=> IsClosed(c.before)
                /\ c.delegating.kind = "value" =>
                      c.delegating = Str("opening connection...") /\ IsOpened(c.after)
          /\ c.call = "close" =>
                /\ (c.delegating.kind = "value") <=> IsOpened(c.before)
                /\ c.delegating.kind = "value" =>
                      c.delegating = Str("closing connection...") /\ IsClosed(c.after)
          /\ c.call \in {"read", "write"} =>
                /\ (c.delegating.kind = "value") <=> IsOpened(c.before)
                /\ c.after = c.before
                /\ c.delegating.kind = "value" =>
                      c.delegating =
                          (IF c.call = "read" THEN Str("reading...")
                           ELSE Str("writing " \o c.data))
          /\ c.delegating.kind = "error" =>
                /\ c.delegating.type = "NotImplementedError"
                /\ c.after = c.before

C15_Witness ==
    /\ Len(trace) = 4
    /\ trace[1].call = "read" /\ trace[1].delegating.kind = "error"
    /\ trace[2].call = "open" /\ trace[2].delegating = Str("opening connection...")
    /\ trace[3].call = "write" /\ trace[3].delegating = Str("writing data")
    /\ trace[4].call = "open"
    /\ trace[4].delegating = NotImplementedError("Connection is already opened")
    /\ IsOpened(connection.state)

(***************************************************************************)
(* C19: the class-swapping Connection and the state-object Connection, run *)
(* side by side from creation on the same sequence of open, close, read    *)
(* and write calls, give the same outcome for every call (the same string  *)
(* returned or the same NotImplementedError message) and are in            *)
(* corresponding states, opened or closed, after every call.               *)
(***************************************************************************)
C19_SameBehaviour ==
    /\ (__class__ = "ConnectionOpened") <=> IsOpened(connection.state)
    /\ (__class__ = "ConnectionClosed") <=> IsClosed(connection.state)
    /\ \A i \in Steps :
          /\ trace[i].swapping = trace[i].delegating
          /\ (trace[i].class = "ConnectionOpened") <=> IsOpened(trace[i].after)
          /\ (trace[i].class = "ConnectionClosed") <=> IsClosed(trace[i].after)

C19_Witness ==
    /\ Len(trace) = 4
    /\ trace[1].call = "open" /\ trace[1].swapping = Str("opening connection...")
    /\ trace[2].call = "write" /\ trace[2].swapping = Str("writing data")
    /\ trace[3].call = "close" /\ trace[3].swapping = Str("closing connection...")
    /\ trace[4].call = "close"
    /\ trace[4].swapping = NotImplementedError("Connection is already closed")
    /\ trace[4].delegating = trace[4].swapping
    /\ __class__ = "ConnectionClosed" /\ IsClosed(connection.state)

(***************************************************************************)
(* behavioral/observer.py, the classical implementation: one Newspaper,    *)
(* one Betty and one Nancy.  The module makes subscribe, unsubscribe and   *)
(* notify calls and assigns newspaper.data; a notify call runs update on   *)
(* the subscribers one by one, in the order its iteration over the set     *)
(* happens to take.                                                        *)
(***************************************************************************)
\* calls and assignments the module makes under SpecObserver
MaxRequests == 5

Subscribers == {"betty", "nancy"}

News == {"Bad news everyone!", "Good news every one!"}

\* 'Bad' in text, for the texts of News
HasBad(text) == text = "Bad news everyone!"

\* an entry of the log: a call (by the module or by an update), an
\* assignment of newspaper.data, or an update delivered; a notify entry
\* holds the two sets as the call found them
Entry(ev, who, by) ==
    [ev |-> ev, who |-> who, by |-> by, data |-> newspaper.data,
     subs |-> newspaper.subscribers, unsubs |-> newspaper._unsubscribers]

\* the calls and assignments the module has made
Requests == { i \in 1..Len(log) : log[i].by = "module" }

\* no notify call is in progress
Idle == pending = {}

InitObserver == NewspaperStart /\ VisitorStart /\ SingletonStart /\ ConnectionStart

\* Newspaper.subscribe, called by SubscriberBase.__init__ or by the module
subscribe ==
    /\ Idle /\ Cardinality(Requests) < MaxRequests
    /\ \E s \in Subscribers :
          /\ newspaper' = [newspaper EXCEPT !.subscribers = @ \cup {s}]
          /\ log' = Append(log, Entry("subscribe", s, "module"))
    /\ UNCHANGED <<pending, notObserver>>

\* the subscriber objects created so far: SubscriberBase.__init__ makes the
\* first subscribe call of a subscriber
Created == { log[i].who : i \in { j \in 1..Len(log) : log[j].ev = "subscribe" } }

\* Newspaper.unsubscribe, called by the module
unsubscribe ==
    /\ Idle /\ Cardinality(Requests) < MaxRequests
    /\ \E s \in Created :
          /\ newspaper' = [newspaper EXCEPT !._unsubscribers = @ \cup {s}]
          /\ log' = Append(log, Entry("unsubscribe", s, "module"))
    /\ UNCHANGED <<pending, notObserver>>

\* newspaper.data = '...' at module level
SetData ==
    /\ Idle /\ Cardinality(Requests) < MaxRequests
    /\ \E text \in News \ {newspaper.data} :
          /\ newspaper' = [newspaper EXCEPT !.data = text]
          /\ log' = Append(log, [Entry("data", "", "module") EXCEPT !.data = text])
    /\ UNCHANGED <<pending, notObserver>>

\* Newspaper._unsubscribe_flush on newspaper object n
_unsubscribe_flush(n) ==
    [n EXCEPT !.subscribers = n.subscribers \ n._unsubscribers,
              !._unsubscribers = {}]

\* Newspaper.notify as it would be without the flush:
\* for subscriber in self.subscribers: subscriber.update(self.data)
notify_unflushed ==
    /\ Idle /\ Cardinality(Requests) < MaxRequests
    /\ pending' = newspaper.subscribers
    /\ log' = Append(log, Entry("notify", "", "module"))
    /\ UNCHANGED <<newspaper, notObserver>>

\* Newspaper.notify, up to the start of its loop
notify ==
    /\ Idle /\ Cardinality(Requests) < MaxRequests
    /\ newspaper' = _unsubscribe_flush(newspaper)
    /\ pending' = newspaper'.subscribers
    /\ log' = Append(log, Entry("notify", "", "module"))
    /\ UNCHANGED notObserver

\* one iteration of the loop of notify that reaches betty: Betty.update
Betty_update ==
    /\ "betty" \in pending
    /\ pending' = pending \ {"betty"}
    /\ IF HasBad(newspaper.data)
       THEN /\ newspaper' = [newspaper EXCEPT !._unsubscribers = @ \cup {"betty"}]
            /\ log' = log \o << Entry("update", "betty", "notify"),
                               Entry("unsubscribe", "betty", "update") >>
       ELSE /\ newspaper' = newspaper
            /\ log' = Append(log, Entry("update", "betty", "notify"))
    /\ UNCHANGED notObserver

\* one iteration of the loop of notify that reaches nancy: Nancy.update
Nancy_update ==
    /\ "nancy" \in pending
    /\ pending' = pending \ {"nancy"}
    /\ log' = Append(log, Entry("update", "nancy", "notify"))
    /\ UNCHANGED <<newspaper, notObserver>>

NextObserver ==
    \/ subscribe \/ unsubscribe \/ SetData \/ notify
    \/ Betty_update \/ Nancy_update

SpecObserver == InitObserver /\ [][NextObserver]_vars

LogIdx == 1..Len(log)

NotifyAt == { i \in LogIdx : log[i].ev = "notify" }

\* the notify calls made between log entries a and b
NotifiesBetween(a, b) == { n \in NotifyAt : a < n /\ n < b }

\* the updates that the notify call at log entry i has delivered to s
UpdatesTo(s, i) ==
    { u \in LogIdx : /\ i < u
                     /\ log[u].ev = "update" /\ log[u].who = s
                     /\ NotifiesBetween(i, u) = {} }

\* the notify call at log entry i has returned
Completed(i) == NotifiesBetween(i, Len(log) + 1) # {} \/ pending = {}

\* every notify call delivers exactly one update, carrying the current
\* data, to each subscriber that is in the subscriber set with no
\* unsubscribe request pending when the call begins, and none to the others
DeliversToSubscribed ==
    \A i \in NotifyAt : \A s \in Subscribers :
        /\ \A u \in UpdatesTo(s, i) : log[u].data = log[i].data
        /\ Cardinality(UpdatesTo(s, i)) <= 1
        /\ UpdatesTo(s, i) # {} => s \in log[i].subs \ log[i].unsubs
        /\ (Completed(i) /\ s \in log[i].subs \ log[i].unsubs) => UpdatesTo(s, i) # {}

\* an unsubscribe call made from inside an update comes right after that
\* update of the caller, which the notify in progress has delivered
CountsForNotifyInProgress ==
    \A j \in LogIdx :
        (log[j].ev = "unsubscribe" /\ log[j].by = "update") =>
            /\ log[j - 1].ev = "update"
            /\ log[j - 1].who = log[j].who

(***************************************************************************)
(* C16 as stated: every notify delivers exactly one update with the        *)
(* current data to each subscriber that is subscribed and has no           *)
(* unsubscribe request outstanding when the notify begins; a subscriber    *)
(* that calls unsubscribe still counts for the notify in progress, but     *)
(* receives no update from any later notify.                               *)
(***************************************************************************)
C16_AsStated ==
    /\ DeliversToSubscribed
    /\ CountsForNotifyInProgress
    /\ \A j, u \in LogIdx :
          (/\ log[j].ev = "unsubscribe"
           /\ log[u].ev = "update" /\ log[u].who = log[j].who
           /\ j < u) => NotifiesBetween(j, u) = {}

(***************************************************************************)
(* C16 amended: as stated, except that a subscriber that has called        *)
(* unsubscribe receives no update from any later notify until it calls     *)
(* subscribe again after a later notify has begun.                         *)
(***************************************************************************)
C16_NotifyDelivery ==
    /\ DeliversToSubscribed
    /\ CountsForNotifyInProgress
    /\ \A j, u \in LogIdx :
          (/\ log[j].ev = "unsubscribe"
           /\ log[u].ev = "update" /\ log[u].who = log[j].who
           /\ j < u /\ NotifiesBetween(j, u) # {}) =>
              \E n \in NotifiesBetween(j, u) : \E m \in LogIdx :
                  /\ n < m /\ m < u
                  /\ log[m].ev = "subscribe" /\ log[m].who = log[j].who

C16_Witness ==
    /\ Len(log) = 8 /\ Idle
    /\ log[1].ev = "subscribe" /\ log[2].ev = "subscribe"
    /\ log[3].ev = "notify" /\ log[3].subs = Subscribers /\ log[3].data = "Bad news everyone!"
    /\ log[5].ev = "unsubscribe" /\ log[5].who = "betty" /\ log[5].by = "update"
    /\ UpdatesTo("betty", 3) = {4} /\ UpdatesTo("nancy", 3) = {6}
    /\ log[7].ev = "notify"
    /\ UpdatesTo("betty", 7) = {} /\ UpdatesTo("nancy", 7) = {8}
    /\ newspaper.subscribers = {"nancy"}

\* the subscribe and unsubscribe calls of s made before log entry i
CallsOf(s, i) ==
    { j \in LogIdx : j < i /\ log[j].who = s /\ log[j].ev \in {"subscribe", "unsubscribe"} }

\* the most recent of them
LastCallOf(s, i) == CHOOSE j \in CallsOf(s, i) : \A k \in CallsOf(s, i) : k <= j

(***************************************************************************)
(* C20: whether a subscriber receives a notify is decided by the most      *)
(* recent of its subscribe and unsubscribe calls made before that notify:  *)
(* it receives the notify, and is in the subscriber set the notify         *)
(* iterates over, exactly when that call was subscribe; so a subscriber    *)
(* that calls unsubscribe and then subscribe before the next notify        *)
(* receives it and stays subscribed.                                       *)
(***************************************************************************)
C20_LastCallDecides ==
    \A i \in NotifyAt : \A s \in Subscribers :
        (Completed(i) /\ CallsOf(s, i) # {}) =>
            LET subscribed == log[LastCallOf(s, i)].ev = "subscribe" IN
            /\ subscribed <=> UpdatesTo(s, i) # {}
            /\ subscribed <=> s \in log[i].subs \ log[i].unsubs

====
